---- MODULE Spec2Model ----
(***************************************************************************)
(* A model of fastuuid (src/src/lib.rs): the Generator (a 24-byte seed and *)
(* an atomic counter), the hex128 encoder and the is_valid_hex128 checker. *)
(*                                                                         *)
(* Bytes are integers 0..255, byte arrays and strings are sequences of     *)
(* bytes (a &str is its UTF-8 bytes).  Rust indexes from 0 and TLA+ from   *)
(* 1: operators that carry a Rust index take it 0-based and add one where  *)
(* they touch a sequence.  The counter is a 64-bit word (the crate only    *)
(* runs where usize is 64 bits wide: on a narrower usize line 87 panics on *)
(* every call).  TLC's integers have 32 bits, so a 64-bit word is kept as  *)
(* four 16-bit limbs, most significant first, and all arithmetic on it is  *)
(* done limb by limb, modulo 2^64.                                         *)
(***************************************************************************)
EXTENDS Integers, Sequences, FiniteSets, TLC

VARIABLES
    seed,       \* Generator.seed: 24 bytes, fixed by Generator::new
    counter,    \* Generator.counter: the atomic 64-bit word
    pc,         \* per thread: "idle", or "fetched" once its fetch_add is done
    op,         \* per thread: the entry point it is running
    current,    \* per thread: `current` of next(), the value fetch_add returned
    ticket,     \* per thread: the place of its fetch_add in the global order
    issued,     \* history: the counter's value before each fetch_add, in order
    returned,   \* history: one record per completed call
    enc_in,     \* encoder harness: the 24-byte argument `uuid`
    enc_out,    \* encoder harness: the slice hex128_from_bytes returned
    enc_pc,     \* encoder harness: "input" or "encoded"
    enc_edits,  \* encoder harness: bytes of enc_in changed so far
    val_in,     \* validator harness: the argument `uuid` (a &str, as UTF-8 bytes)
    val_out,    \* validator harness: what is_valid_hex128 returned
    val_pc,     \* validator harness: "input" or "checked"
    val_edits   \* validator harness: characters of val_in changed so far

gen_vars == <<seed, counter, pc, op, current, ticket, issued, returned>>
enc_vars == <<enc_in, enc_out, enc_pc, enc_edits>>
val_vars == <<val_in, val_out, val_pc, val_edits>>
vars == <<seed, counter, pc, op, current, ticket, issued, returned,
          enc_in, enc_out, enc_pc, enc_edits,
          val_in, val_out, val_pc, val_edits>>

(***************************************************************************)
(* Bounds.                                                                 *)
(***************************************************************************)
\* calls of next() (direct or through a hex128_* entry point) in one run
MaxCalls == 3
\* bytes of an encoder input changed before it is encoded
MaxEncEdits == 1
\* characters of a validator input changed before it is validated
MaxValEdits == 1

Threads == {"t1", "t2"}

(***************************************************************************)
(* Bytes and bit operations on them.                                       *)
(***************************************************************************)
RECURSIVE BitAnd(_, _)
BitAnd(a, b) ==
    IF a = 0 \/ b = 0 THEN 0
    ELSE (a % 2) * (b % 2) + 2 * BitAnd(a \div 2, b \div 2)

RECURSIVE BitOr(_, _)
BitOr(a, b) ==
    IF a = 0 THEN b
    ELSE IF b = 0 THEN a
    ELSE (IF a % 2 = 1 \/ b % 2 = 1 THEN 1 ELSE 0) + 2 * BitOr(a \div 2, b \div 2)

Repeat(n, x) == [i \in 1..n |-> x]

(***************************************************************************)
(* 64-bit words: <<l3, l2, l1, l0>>, value l3*2^48 + l2*2^32 + l1*2^16+l0. *)
(***************************************************************************)
Limb == 2^16

U64Max == <<Limb - 1, Limb - 1, Limb - 1, Limb - 1>>

\* u64::from_le_bytes: byte 0 is the least significant
from_le_bytes(b) ==
    << b[8] * 256 + b[7], b[6] * 256 + b[5], b[4] * 256 + b[3], b[2] * 256 + b[1] >>

\* usize::to_le_bytes: the least significant byte first
to_le_bytes(v) ==
    << v[4] % 256, v[4] \div 256, v[3] % 256, v[3] \div 256,
       v[2] % 256, v[2] \div 256, v[1] % 256, v[1] \div 256 >>

RECURSIVE AddCarry(_, _, _)
AddCarry(v, i, carry) ==
    IF i = 0 THEN v
    ELSE LET s == v[i] + carry
         IN  AddCarry([v EXCEPT ![i] = s % Limb], i - 1, s \div Limb)

\* the addition of fetch_add: it wraps around on overflow
wrapping_add(v, n) == AddCarry(v, 4, n)

RECURSIVE SubBorrow(_, _, _)
SubBorrow(v, i, borrow) ==
    IF i = 0 THEN v
    ELSE LET d == v[i] - borrow
         IN  SubBorrow([v EXCEPT ![i] = d % Limb], i - 1, IF d < 0 THEN 1 ELSE 0)

\* subtraction modulo 2^64
wrapping_sub(v, n) == SubBorrow(v, 4, n)

\* v < w as unsigned 64-bit values
U64Less(v, w) ==
    \E i \in 1..4 : v[i] < w[i] /\ \A j \in 1..(i - 1) : v[j] = w[j]

(***************************************************************************)
(* The seeds Generator::new may draw.  The first 8 bytes give the initial  *)
(* counter: zero, the largest word, one below it, a value whose increment  *)
(* carries into byte 6, and an arbitrary one.                              *)
(***************************************************************************)
SeedHeads ==
    { Repeat(8, 0),
      Repeat(8, 255),
      <<254>> \o Repeat(7, 255),
      Repeat(6, 255) \o <<42, 0>>,
      <<17, 254, 191, 152, 193, 8, 211, 131>> }

SeedTailA == <<187, 30, 115, 159, 252, 212, 67, 65, 1, 2, 3, 4, 5, 6, 7, 8>>

SeedTailB == <<0, 255, 64, 128, 15, 240, 127, 200, 9, 9, 9, 9, 9, 9, 9, 9>>

Seeds ==
    { h \o SeedTailA : h \in SeedHeads } \cup { Repeat(8, 0) \o SeedTailB }

(***************************************************************************)
(* Generator::new and Generator::next.                                     *)
(***************************************************************************)
\* the counter Generator::new derives from the seed it drew
new_counter(s) == from_le_bytes(SubSeq(s, 1, 8))

\* fetch_add with the increment lost: an atomic load in its place
fetch_add_load(t) ==
    /\ current' = [current EXCEPT ![t] = counter]
    /\ counter' = counter
    /\ issued' = Append(issued, counter)
    /\ ticket' = [ticket EXCEPT ![t] = Len(issued) + 1]

\* fetch_add with a step of two
fetch_add_two(t) ==
    /\ current' = [current EXCEPT ![t] = counter]
    /\ counter' = wrapping_add(counter, 2)
    /\ issued' = Append(issued, counter)
    /\ ticket' = [ticket EXCEPT ![t] = Len(issued) + 1]

\* fetch_sub in the place of fetch_add: the counter runs downwards
fetch_sub(t) ==
    /\ current' = [current EXCEPT ![t] = counter]
    /\ counter' = wrapping_sub(counter, 1)
    /\ issued' = Append(issued, counter)
    /\ ticket' = [ticket EXCEPT ![t] = Len(issued) + 1]

\* AtomicUsize::fetch_add(1, SeqCst) by thread t: one atomic step that hands
\* back the old value; `issued` and `ticket` record its place in the order
fetch_add(t) ==
    /\ current' = [current EXCEPT ![t] = counter]
    /\ counter' = wrapping_add(counter, 1)
    /\ issued' = Append(issued, counter)
    /\ ticket' = [ticket EXCEPT ![t] = Len(issued) + 1]

\* next() with the counter written most significant byte first
next_uuid_be(cur, s) ==
    [i \in 1..8 |-> to_le_bytes(cur)[9 - i]] \o SubSeq(s, 9, 24)

\* the array next() builds from `current` and the seed
next_uuid(cur, s) == to_le_bytes(cur) \o SubSeq(s, 9, 24)

(***************************************************************************)
(* The encoder, hex128_from_bytes.                                         *)
(***************************************************************************)
\* b'-'
Hyphen == 45

\* the table of faster_hex::hex_encode: "0123456789abcdef"
HexTable == <<48, 49, 50, 51, 52, 53, 54, 55, 56, 57, 97, 98, 99, 100, 101, 102>>

\* hex_encode_upper in the place of hex_encode: "0123456789ABCDEF"
hex_encode_upper(src) ==
    [ i \in 1..(2 * Len(src)) |->
        LET b == src[(i + 1) \div 2]
            n == IF i % 2 = 1 THEN b \div 16 ELSE b % 16
        IN  IF n < 10 THEN 48 + n ELSE 55 + n ]

\* faster_hex::hex_encode(src, dst): two lowercase digits per byte, the high
\* nibble first; dst must be twice as long as src
hex_encode(src) ==
    [ i \in 1..(2 * Len(src)) |->
        LET b == src[(i + 1) \div 2]
        IN  IF i % 2 = 1 THEN HexTable[(b \div 16) + 1] ELSE HexTable[(b % 16) + 1] ]

\* <[u8]>::swap(a, b), indices from 0
swap(arr, a, b) == [arr EXCEPT ![a + 1] = arr[b + 1], ![b + 1] = arr[a + 1]]

\* <[u8]>::copy_within(from..to, dest), indices from 0: a memmove, every
\* source byte is read before any is overwritten
copy_within(buf, from, to, dest) ==
    [ i \in 1..Len(buf) |->
        IF dest + 1 <= i /\ i <= dest + (to - from)
        THEN buf[i - dest + from]
        ELSE buf[i] ]

\* the first n bytes of buf replaced by head (a write into &mut buffer[0..n])
write_head(buf, head) ==
    [ i \in 1..Len(buf) |-> IF i <= Len(head) THEN head[i] ELSE buf[i] ]

\* the overwrites without the swap of bytes 6 and 9
twiddle_noswap(uuid) ==
    LET t2 == [uuid EXCEPT ![7] = BitOr(BitAnd(uuid[7], 15), 64)]
    IN  [t2 EXCEPT ![9] = BitOr(BitAnd(t2[9], 63), 128)]

\* temp_uuid after the swap and the version and variant overwrites
twiddle(uuid) ==
    LET t1 == swap(uuid, 6, 9)
        t2 == [t1 EXCEPT ![7] = BitOr(BitAnd(t1[7], 15), 64)]
    IN  [t2 EXCEPT ![9] = BitOr(BitAnd(t2[9], 63), 128)]

\* the shifts without the first one: the last four places are never written
shift_groups_short(b0) ==
    LET b2 == copy_within(b0, 16, 20, 19)
        b3 == copy_within(b2, 12, 16, 14)
    IN  copy_within(b3, 8, 12, 9)

\* the shifts in the opposite order: a group is overwritten before it moves
shift_groups_reversed(b0) ==
    LET b1 == copy_within(b0, 8, 12, 9)
        b2 == copy_within(b1, 12, 16, 14)
        b3 == copy_within(b2, 16, 20, 19)
    IN  copy_within(b3, 20, 32, 24)

\* the four overlapping shifts that open the gaps for the hyphens
shift_groups(b0) ==
    LET b1 == copy_within(b0, 20, 32, 24)
        b2 == copy_within(b1, 16, 20, 19)
        b3 == copy_within(b2, 12, 16, 14)
    IN  copy_within(b3, 8, 12, 9)

\* buffer[8] = buffer[13] = buffer[18] = buffer[23] = b'-'
put_hyphens(b) ==
    [b EXCEPT ![9] = Hyphen, ![14] = Hyphen, ![19] = Hyphen, ![24] = Hyphen]

\* hex128_from_bytes encoding temp_uuid[8..24] in the place of [0..16]
hex128_from_bytes_tail(uuid, buffer) ==
    LET temp_uuid == twiddle(uuid)
        b0 == write_head(buffer, hex_encode(SubSeq(temp_uuid, 9, 24)))
    IN  put_hyphens(shift_groups(b0))

\* hex128_from_bytes(uuid, buffer): what the buffer holds on return
hex128_from_bytes(uuid, buffer) ==
    LET temp_uuid == twiddle(uuid)
        b0 == write_head(buffer, hex_encode(SubSeq(temp_uuid, 1, 16)))
    IN  put_hyphens(shift_groups(b0))

(***************************************************************************)
(* std::str::from_utf8: Ok exactly when the bytes are well-formed UTF-8.   *)
(***************************************************************************)
IsCont(b) == 128 <= b /\ b <= 191

RECURSIVE Utf8From(_, _)
Utf8From(b, i) ==
    IF i > Len(b) THEN TRUE
    ELSE LET x == b[i]
             has(n) == i + n <= Len(b)
         IN  IF x < 128 THEN Utf8From(b, i + 1)
             ELSE IF 194 <= x /\ x <= 223
             THEN has(1) /\ IsCont(b[i + 1]) /\ Utf8From(b, i + 2)
             ELSE IF 224 <= x /\ x <= 239
             THEN /\ has(2)
                  /\ IsCont(b[i + 1]) /\ IsCont(b[i + 2])
                  /\ (x = 224 => b[i + 1] >= 160)
                  /\ (x = 237 => b[i + 1] <= 159)
                  /\ Utf8From(b, i + 3)
             ELSE IF 240 <= x /\ x <= 244
             THEN /\ has(3)
                  /\ IsCont(b[i + 1]) /\ IsCont(b[i + 2]) /\ IsCont(b[i + 3])
                  /\ (x = 240 => b[i + 1] >= 144)
                  /\ (x = 244 => b[i + 1] <= 143)
                  /\ Utf8From(b, i + 4)
             ELSE FALSE

from_utf8_ok(b) == Utf8From(b, 1)

(***************************************************************************)
(* The validity checker, is_valid_hex128.                                  *)
(***************************************************************************)
\* str::chars: the code points of well-formed UTF-8 bytes
RECURSIVE chars(_)
chars(b) ==
    IF b = <<>> THEN <<>>
    ELSE LET x == b[1]
             c(i) == b[i] - 128
             rest(n) == SubSeq(b, n + 1, Len(b))
         IN  IF x < 128 THEN <<x>> \o chars(rest(1))
             ELSE IF x < 224 THEN <<(x - 192) * 64 + c(2)>> \o chars(rest(2))
             ELSE IF x < 240
             THEN <<(x - 224) * 4096 + c(2) * 64 + c(3)>> \o chars(rest(3))
             ELSE <<(x - 240) * 262144 + c(2) * 4096 + c(3) * 64 + c(4)>>
                  \o chars(rest(4))

\* valid_hex that takes uppercase digits too
valid_hex_upper(hex) ==
    \A i \in 1..Len(chars(hex)) :
        LET c == chars(hex)[i]
        IN  (48 <= c /\ c <= 57) \/ (97 <= c /\ c <= 102) \/ (65 <= c /\ c <= 70)

\* valid_hex: every char is in '0'..='9' or 'a'..='f'
valid_hex(hex) ==
    \A i \in 1..Len(chars(hex)) :
        LET c == chars(hex)[i]
        IN  (48 <= c /\ c <= 57) \/ (97 <= c /\ c <= 102)

\* str::is_char_boundary(i), i from 0: where a &str may be sliced
is_char_boundary(b, i) ==
    i = 0 \/ i = Len(b) \/ (i < Len(b) /\ ~IsCont(b[i + 1]))

\* &uuid[from..to], indices from 0
slice(b, from, to) == SubSeq(b, from + 1, to)

\* the early return of is_valid_hex128: a wrong length or a misplaced hyphen
\* (|| stops at the first true operand: nothing is indexed in a short string)
bad_shape(uuid) ==
    \/ Len(uuid) # 36
    \/ uuid[9] # Hyphen
    \/ uuid[14] # Hyphen
    \/ uuid[19] # Hyphen
    \/ uuid[24] # Hyphen

\* is_valid_hex128 panics when a slice does not fall on a char boundary
is_valid_hex128_panics(uuid) ==
    /\ ~bad_shape(uuid)
    /\ \E i \in {8, 9, 13, 14, 18, 19, 23, 24} : ~is_char_boundary(uuid, i)

\* is_valid_hex128(uuid): the value it returns
is_valid_hex128(uuid) ==
    IF bad_shape(uuid) THEN FALSE
    ELSE /\ valid_hex(slice(uuid, 0, 8))
         /\ valid_hex(slice(uuid, 9, 13))
         /\ valid_hex(slice(uuid, 14, 18))
         /\ valid_hex(slice(uuid, 19, 23))
         /\ valid_hex(slice(uuid, 24, Len(uuid)))

(***************************************************************************)
(* The Generator under concurrent callers.  A call is two steps: the       *)
(* atomic fetch_add that next() starts with, and the rest of the call,     *)
(* which touches only the caller's locals and the immutable seed.          *)
(***************************************************************************)
\* what a caller may have left in the buffer it hands to hex128_as_str
Buffers == { Repeat(36, 0), Repeat(36, 255) }

ZeroWord == <<0, 0, 0, 0>>

EncOff ==
    /\ enc_in = <<>> /\ enc_out = <<>>
    /\ enc_pc = "off" /\ enc_edits = 0

ValOff ==
    /\ val_in = <<>> /\ val_out = FALSE /\ val_pc = "off" /\ val_edits = 0

\* Generator::new, with the seed the random source gave
new(s) ==
    /\ seed = s
    /\ counter = new_counter(s)

Init ==
    /\ \E s \in Seeds : new(s)
    /\ pc = [t \in Threads |-> "idle"]
    /\ op = [t \in Threads |-> "none"]
    /\ current = [t \in Threads |-> ZeroWord]
    /\ ticket = [t \in Threads |-> 0]
    /\ issued = <<>>
    /\ returned = {}
    /\ EncOff
    /\ ValOff

\* thread t enters entry point `name`: every one of them starts with next(),
\* and next() with the fetch_add
call(t, name) ==
    /\ pc[t] = "idle"
    /\ Len(issued) < MaxCalls
    /\ fetch_add(t)
    /\ pc' = [pc EXCEPT ![t] = "fetched"]
    /\ op' = [op EXCEPT ![t] = name]
    /\ UNCHANGED <<seed, returned>>
    /\ UNCHANGED <<enc_vars, val_vars>>

\* thread t returns: its locals die, the result is recorded
return(t, uuid, str, ok) ==
    /\ returned' = returned \cup
            { [k |-> ticket[t], op |-> op[t],
               uuid |-> uuid, str |-> str, ok |-> ok] }
    /\ pc' = [pc EXCEPT ![t] = "idle"]
    /\ op' = [op EXCEPT ![t] = "none"]
    /\ current' = [current EXCEPT ![t] = ZeroWord]
    /\ ticket' = [ticket EXCEPT ![t] = 0]
    /\ UNCHANGED <<seed, counter, issued>>
    /\ UNCHANGED <<enc_vars, val_vars>>

\* the checked conversion: Ok(the text) or Err(Utf8Error)
checked(t, uuid, bytes) ==
    IF from_utf8_ok(bytes)
    THEN return(t, uuid, bytes, TRUE)
    ELSE return(t, uuid, <<>>, FALSE)

\* the unchecked conversion hands the bytes out as they are
unchecked(t, uuid, bytes) == return(t, uuid, bytes, TRUE)

next(t) == call(t, "next")

next_ret(t) ==
    /\ pc[t] = "fetched" /\ op[t] = "next"
    /\ return(t, next_uuid(current[t], seed), <<>>, TRUE)

hex128_as_str(t) == call(t, "hex128_as_str")

hex128_as_str_ret(t) ==
    /\ pc[t] = "fetched" /\ op[t] = "hex128_as_str"
    /\ \E buffer \in Buffers :
         LET uuid == next_uuid(current[t], seed)
         IN  checked(t, uuid, hex128_from_bytes(uuid, buffer))

hex128_as_str_unchecked(t) == call(t, "hex128_as_str_unchecked")

hex128_as_str_unchecked_ret(t) ==
    /\ pc[t] = "fetched" /\ op[t] = "hex128_as_str_unchecked"
    /\ \E buffer \in Buffers :
         LET uuid == next_uuid(current[t], seed)
         IN  unchecked(t, uuid, hex128_from_bytes(uuid, buffer))

hex128_as_string_unchecked(t) == call(t, "hex128_as_string_unchecked")

hex128_as_string_unchecked_ret(t) ==
    /\ pc[t] = "fetched" /\ op[t] = "hex128_as_string_unchecked"
    /\ LET uuid == next_uuid(current[t], seed)
       IN  unchecked(t, uuid, hex128_from_bytes(uuid, Repeat(36, 0)))

hex128_as_string(t) == call(t, "hex128_as_string")

hex128_as_string_ret(t) ==
    /\ pc[t] = "fetched" /\ op[t] = "hex128_as_string"
    /\ LET uuid == next_uuid(current[t], seed)
       IN  checked(t, uuid, hex128_from_bytes(uuid, Repeat(36, 0)))

Next ==
    \E t \in Threads :
        \/ next(t)
        \/ next_ret(t)
        \/ hex128_as_str(t)
        \/ hex128_as_str_ret(t)
        \/ hex128_as_str_unchecked(t)
        \/ hex128_as_str_unchecked_ret(t)
        \/ hex128_as_string_unchecked(t)
        \/ hex128_as_string_unchecked_ret(t)
        \/ hex128_as_string(t)
        \/ hex128_as_string_ret(t)

Spec == Init /\ [][Next]_vars

(***************************************************************************)
(* The encoder on its own: a sequential caller builds a 24-byte input (a   *)
(* fixed array, the result of next(), either with some bytes changed),     *)
(* hands it to hex128_from_bytes with a buffer that holds anything, and    *)
(* gives the result to is_valid_hex128, as tests::hex128 does.             *)
(***************************************************************************)
EncBases ==
    { Repeat(24, 0),
      Repeat(24, 255),
      [i \in 1..24 |-> (i * 37) % 256] }

\* byte values that cover the digits 0, 9, 5, a, f and three settings of the
\* two top bits (the fourth is in the base of all 255)
ByteSamples == {9, 90, 175}

EncSeeds ==
    { <<17, 254, 191, 152, 193, 8, 211, 131>> \o SeedTailA,
      Repeat(8, 255) \o SeedTailB }

Caller == CHOOSE t \in Threads : TRUE

EncInit ==
    /\ \E s \in EncSeeds : new(s)
    /\ pc = [t \in Threads |-> "idle"]
    /\ op = [t \in Threads |-> "none"]
    /\ current = [t \in Threads |-> ZeroWord]
    /\ ticket = [t \in Threads |-> 0]
    /\ issued = <<>>
    /\ returned = {}
    /\ enc_in \in EncBases
    /\ enc_out = <<>>
    /\ enc_pc = "input"
    /\ enc_edits = 0
    /\ ValOff

\* the caller changes one byte of the input
enc_edit ==
    /\ enc_pc = "input"
    /\ enc_edits < MaxEncEdits
    /\ \E i \in 1..24, v \in ByteSamples :
         /\ enc_in[i] # v
         /\ enc_in' = [enc_in EXCEPT ![i] = v]
    /\ enc_edits' = enc_edits + 1
    /\ UNCHANGED <<enc_out, enc_pc>>
    /\ UNCHANGED <<gen_vars, val_vars>>

\* the caller takes its input from the Generator: a whole call of next()
enc_next ==
    /\ enc_pc = "input"
    /\ enc_edits = 0
    /\ Len(issued) < MaxCalls
    /\ fetch_add(Caller)
    /\ enc_in' = next_uuid(current'[Caller], seed)
    /\ UNCHANGED <<seed, pc, op, returned>>
    /\ UNCHANGED <<enc_out, enc_pc, enc_edits>>
    /\ UNCHANGED val_vars

\* Generator::hex128_from_bytes(&enc_in, &mut buffer)
enc_encode ==
    /\ enc_pc = "input"
    /\ \E buffer \in Buffers : enc_out' = hex128_from_bytes(enc_in, buffer)
    /\ enc_pc' = "encoded"
    /\ UNCHANGED <<enc_in, enc_edits>>
    /\ UNCHANGED <<gen_vars, val_vars>>

\* Generator::is_valid_hex128 on the encoder's output
enc_validate ==
    /\ enc_pc = "encoded"
    /\ val_pc = "off"
    /\ val_in' = enc_out
    /\ val_out' = is_valid_hex128(enc_out)
    /\ val_pc' = IF is_valid_hex128_panics(enc_out) THEN "panicked" ELSE "checked"
    /\ UNCHANGED val_edits
    /\ UNCHANGED <<gen_vars, enc_vars>>

EncNext ==
    \/ enc_edit
    \/ enc_next
    \/ enc_encode
    \/ enc_validate

SpecEnc == EncInit /\ [][EncNext]_vars

(***************************************************************************)
(* The validity checker on its own: the strings of tests::valid_hex, each  *)
(* with some characters replaced, inserted or deleted.  Every edit keeps   *)
(* the bytes well-formed UTF-8, as a &str always is.                       *)
(***************************************************************************)
\* "11febf98-c108-4383-bb1e-739ffcd44341"
ValidV4 ==
    << 49, 49, 102, 101, 98, 102, 57, 56, 45, 99, 49, 48,
       56, 45, 52, 51, 56, 51, 45, 98, 98, 49, 101, 45,
       55, 51, 57, 102, 102, 99, 100, 52, 52, 51, 52, 49 >>

\* "11febf98-c108-4383-bb1e-739ffcd4434"
Short35 ==
    << 49, 49, 102, 101, 98, 102, 57, 56, 45, 99, 49, 48,
       56, 45, 52, 51, 56, 51, 45, 98, 98, 49, 101, 45,
       55, 51, 57, 102, 102, 99, 100, 52, 52, 51, 52 >>

\* "11febf98-c108-4383-bb1e-739ffcd443412"
Long37 ==
    << 49, 49, 102, 101, 98, 102, 57, 56, 45, 99, 49, 48,
       56, 45, 52, 51, 56, 51, 45, 98, 98, 49, 101, 45,
       55, 51, 57, 102, 102, 99, 100, 52, 52, 51, 52, 49,
       50 >>

\* "11febf98c1-08-4383-bb1e-739ffcd44341"
Shifted8 ==
    << 49, 49, 102, 101, 98, 102, 57, 56, 99, 49, 45, 48,
       56, 45, 52, 51, 56, 51, 45, 98, 98, 49, 101, 45,
       55, 51, 57, 102, 102, 99, 100, 52, 52, 51, 52, 49 >>

\* "11febf98-c1084-383-bb1e-739ffcd44341"
Shifted13 ==
    << 49, 49, 102, 101, 98, 102, 57, 56, 45, 99, 49, 48,
       56, 52, 45, 51, 56, 51, 45, 98, 98, 49, 101, 45,
       55, 51, 57, 102, 102, 99, 100, 52, 52, 51, 52, 49 >>

\* "11febf98-c108-4383bb-1e-739ffcd44341"
Shifted18 ==
    << 49, 49, 102, 101, 98, 102, 57, 56, 45, 99, 49, 48,
       56, 45, 52, 51, 56, 51, 98, 98, 45, 49, 101, 45,
       55, 51, 57, 102, 102, 99, 100, 52, 52, 51, 52, 49 >>

\* "11febf98-c108-4383-bb1e7-39ffcd44341"
Shifted23 ==
    << 49, 49, 102, 101, 98, 102, 57, 56, 45, 99, 49, 48,
       56, 45, 52, 51, 56, 51, 45, 98, 98, 49, 101, 55,
       45, 51, 57, 102, 102, 99, 100, 52, 52, 51, 52, 49 >>

ValBases == {ValidV4, Short35, Long37, Shifted8, Shifted13, Shifted18, Shifted23}

\* '-', '/', '0', '9', ':', 'F', '`', 'a', 'f', 'g': the hyphen, the ends of
\* both digit ranges, their neighbours, and an uppercase digit
CharSamples == {45, 47, 48, 57, 58, 70, 96, 97, 102, 103}

\* '-', '0': the characters an edit may insert
InsertSamples == {45, 48}

\* U+00E9 in UTF-8, a character of two bytes
TwoByteChar == <<195, 169>>

\* the positions (from 0) an edit may touch: the hyphens, the ends of the
\* groups beside them, and both ends of the string
ValPositions == {0, 7, 8, 9, 12, 13, 14, 18, 23, 24, 35, 36}

ValInit ==
    /\ new(Repeat(8, 0) \o SeedTailA)
    /\ pc = [t \in Threads |-> "idle"]
    /\ op = [t \in Threads |-> "none"]
    /\ current = [t \in Threads |-> ZeroWord]
    /\ ticket = [t \in Threads |-> 0]
    /\ issued = <<>>
    /\ returned = {}
    /\ EncOff
    /\ val_in \in ValBases
    /\ val_out = FALSE
    /\ val_pc = "input"
    /\ val_edits = 0

val_edited(s) ==
    /\ val_pc = "input"
    /\ val_edits < MaxValEdits
    /\ val_in' = s
    /\ val_edits' = val_edits + 1
    /\ UNCHANGED <<val_out, val_pc>>
    /\ UNCHANGED <<gen_vars, enc_vars>>

IsAscii(b) == b < 128

\* one character replaced by another
val_replace ==
    \E i \in ValPositions, c \in CharSamples :
        /\ i < Len(val_in)
        /\ IsAscii(val_in[i + 1])
        /\ val_in[i + 1] # c
        /\ val_edited([val_in EXCEPT ![i + 1] = c])

\* one character inserted
val_insert ==
    \E i \in ValPositions, c \in InsertSamples :
        /\ i <= Len(val_in)
        /\ is_char_boundary(val_in, i)
        /\ val_edited(SubSeq(val_in, 1, i) \o <<c>> \o SubSeq(val_in, i + 1, Len(val_in)))

\* one character deleted
val_delete ==
    \E i \in ValPositions :
        /\ i < Len(val_in)
        /\ IsAscii(val_in[i + 1])
        /\ val_edited(SubSeq(val_in, 1, i) \o SubSeq(val_in, i + 2, Len(val_in)))

\* two characters replaced by one of two bytes: the byte length stays
val_widen ==
    \E i \in ValPositions :
        /\ i + 1 < Len(val_in)
        /\ IsAscii(val_in[i + 1]) /\ IsAscii(val_in[i + 2])
        /\ val_edited(SubSeq(val_in, 1, i) \o TwoByteChar
                        \o SubSeq(val_in, i + 3, Len(val_in)))

\* Generator::is_valid_hex128(val_in)
val_check ==
    /\ val_pc = "input"
    /\ val_out' = is_valid_hex128(val_in)
    /\ val_pc' = IF is_valid_hex128_panics(val_in) THEN "panicked" ELSE "checked"
    /\ UNCHANGED <<val_in, val_edits>>
    /\ UNCHANGED <<gen_vars, enc_vars>>

ValNext ==
    \/ val_replace
    \/ val_insert
    \/ val_delete
    \/ val_widen
    \/ val_check

SpecVal == ValInit /\ [][ValNext]_vars

(***************************************************************************)
(* Properties of the Generator (specification Spec).                       *)
(***************************************************************************)
HexOps ==
    { "hex128_as_str", "hex128_as_str_unchecked",
      "hex128_as_string_unchecked", "hex128_as_string" }

CheckedOps == { "hex128_as_str", "hex128_as_string" }

\* the counter value a returned identifier carries in its first 8 bytes
carried(r) == from_le_bytes(SubSeq(r.uuid, 1, 8))

\* the calls made so far: the completed ones and those past their fetch_add
InFlight == { t \in Threads : pc[t] = "fetched" }

\* the value of a hex digit
HexVal(c) == IF c <= 57 THEN c - 48 ELSE c - 87

\* where (from 1) digit n (from 0) of the 32 stands in the 36-character string
DigitPos(n) ==
    n + 1 + (IF n >= 8 THEN 1 ELSE 0) + (IF n >= 12 THEN 1 ELSE 0)
          + (IF n >= 16 THEN 1 ELSE 0) + (IF n >= 20 THEN 1 ELSE 0)

\* byte j (from 0) of the 16 encoded bytes, read back from the string
ByteAt(str, j) ==
    16 * HexVal(str[DigitPos(2 * j)]) + HexVal(str[DigitPos(2 * j + 1)])

\* the 64 counter bits read back from a string: bytes 0-5 and 7 stand in
\* their places, byte 6 stands in place 9
CounterOf(str) ==
    from_le_bytes(<< ByteAt(str, 0), ByteAt(str, 1), ByteAt(str, 2), ByteAt(str, 3),
                     ByteAt(str, 4), ByteAt(str, 5), ByteAt(str, 9), ByteAt(str, 7) >>)

\* C1: no two calls of next() on one Generator, in any interleaving, observe
\* the same pre-increment counter value or return the same 24-byte identifier
\* (the model makes far fewer than 2^64 calls).
C1_Unique ==
    /\ \A t1, t2 \in InFlight : t1 # t2 => current[t1] # current[t2]
    /\ \A t \in InFlight : \A r \in returned : carried(r) # current[t]
    /\ \A r1, r2 \in returned : r1.k # r2.k => r1.uuid # r2.uuid
    /\ Cardinality({ r.k : r \in returned }) = Cardinality(returned)

\* two calls have returned different identifiers while a call that did its
\* fetch_add before the later of them is still running
C1_Witness ==
    \E r1, r2 \in returned : \E t \in InFlight :
        /\ r1.k < r2.k
        /\ ticket[t] < r2.k
        /\ r1.uuid # r2.uuid

\* C2: the strings the four hex128 entry points return for one Generator are
\* pairwise distinct, and each still holds all 64 bits of the counter value
\* its call consumed: bytes 0-5 and 7 in place, byte 6 in place 9.
C2_HexInjective ==
    /\ \A r1, r2 \in returned :
         (r1.op \in HexOps /\ r2.op \in HexOps /\ r1.k # r2.k) => r1.str # r2.str
    /\ \A r \in returned :
         (r.op \in HexOps /\ Len(r.str) = 36) => CounterOf(r.str) = issued[r.k]

\* two different entry points returned strings that differ in the place of
\* byte 9, where the swap put counter byte 6
C2_Witness ==
    \E r1, r2 \in returned :
        /\ r1.op \in HexOps /\ r2.op \in HexOps /\ r1.op # r2.op
        /\ Len(r1.str) = 36 /\ Len(r2.str) = 36
        /\ ByteAt(r1.str, 9) # ByteAt(r2.str, 9)

\* C3: every identifier next() returns has the little-endian bytes of the
\* pre-increment counter value in bytes 0-7 and bytes 8-23 of the seed in
\* bytes 8-23, so two identifiers of one Generator agree on bytes 8-23.
C3_NextLayout ==
    /\ \A r \in returned :
         /\ Len(r.uuid) = 24
         /\ \A i \in 0..7 :
              r.uuid[i + 1] =
                (issued[r.k][4 - (i \div 2)] \div (IF i % 2 = 0 THEN 1 ELSE 256)) % 256
         /\ SubSeq(r.uuid, 9, 24) = SubSeq(seed, 9, 24)
    /\ \A r1, r2 \in returned : SubSeq(r1.uuid, 9, 24) = SubSeq(r2.uuid, 9, 24)

\* a direct call of next(), not the first one, returned a value whose eight
\* counter bytes are not a palindrome (the byte order shows)
C3_Witness ==
    \E r \in returned :
        /\ r.op = "next"
        /\ r.k >= 2
        /\ r.uuid[1] # r.uuid[8]

\* no call between the i-th and the j-th fetch_add consumed the largest word
NoWrapBetween(i, j) == \A n \in i..(j - 1) : issued[n] # U64Max

\* C7 as stated: whatever the initial counter value, the counter values the
\* calls return, taken in the order of their fetch_adds, strictly increase.
C7_AlwaysIncreasing ==
    \A r1, r2 \in returned : r1.k < r2.k => U64Less(carried(r1), carried(r2))

\* C7 as amended: each returned counter value is its predecessor plus one
\* modulo 2^64, so the values strictly increase up to the call that returns
\* 2^64 - 1 and start again from 0 after it.
C7_IncreasingUntilWrap ==
    /\ \A r1, r2 \in returned :
         (r1.k < r2.k /\ NoWrapBetween(r1.k, r2.k)) => U64Less(carried(r1), carried(r2))
    /\ \A r1, r2 \in returned :
         (r2.k = r1.k + 1 /\ carried(r1) = U64Max) => carried(r2) = ZeroWord
    /\ \A r1, r2 \in returned :
         (r2.k = r1.k + 1 /\ carried(r1) # U64Max)
            => \E i \in 1..4 :
                 /\ carried(r2)[i] = carried(r1)[i] + 1
                 /\ \A j \in 1..(i - 1) : carried(r2)[j] = carried(r1)[j]
                 /\ \A j \in (i + 1)..4 : carried(r1)[j] = Limb - 1 /\ carried(r2)[j] = 0

\* three calls returned increasing values across a carry out of the lowest
\* 16 bits, the later ones completing first or not
C7_Witness ==
    \E r1, r2, r3 \in returned :
        /\ r1.k = 1 /\ r2.k = 2 /\ r3.k = 3
        /\ NoWrapBetween(1, 3)
        /\ carried(r1)[4] = Limb - 1
        /\ U64Less(carried(r1), carried(r2)) /\ U64Less(carried(r2), carried(r3))

\* C8: hex128_as_str and hex128_as_string never return the error: the 36
\* bytes they validate are ASCII for every seed and counter value.
C8_CheckedAlwaysOk ==
    \A r \in returned :
        r.op \in CheckedOps =>
            /\ r.ok
            /\ Len(r.str) = 36
            /\ \A i \in 1..36 : r.str[i] < 128

\* both checked entry points have returned Ok, one of them after the counter
\* wrapped around
C8_Witness ==
    \E r1, r2 \in returned :
        /\ r1.op = "hex128_as_str" /\ r1.ok
        /\ r2.op = "hex128_as_string" /\ r2.ok
        /\ r1.k < r2.k
        /\ carried(r1) = U64Max

\* the values consumed by the calls made so far
Consumed == { carried(r) : r \in returned } \cup { current[t] : t \in InFlight }

NumCalls == Cardinality(returned) + Cardinality(InFlight)

\* C10: every call of next or of a hex128 entry point adds exactly one to the
\* counter: after k calls the counter is (c0 + k) mod 2^64 and the values
\* consumed are c0, ..., c0 + k - 1 mod 2^64, c0 the little-endian value of
\* seed bytes 0-7.
C10_OneIncrementPerCall ==
    /\ counter = wrapping_add(new_counter(seed), NumCalls)
    /\ Consumed = { wrapping_add(new_counter(seed), i) : i \in 0..(NumCalls - 1) }
    /\ Cardinality(Consumed) = NumCalls

\* three different entry points have completed, a checked one among them,
\* and the counter has wrapped around on the way
C10_Witness ==
    /\ NumCalls = 3
    /\ InFlight = {}
    /\ Cardinality({ r.op : r \in returned }) = 3
    /\ \E r \in returned : r.op \in CheckedOps /\ r.ok
    /\ U64Less(counter, new_counter(seed))

(***************************************************************************)
(* Properties of the encoder (specification SpecEnc).                      *)
(***************************************************************************)
HyphenPlaces == {9, 14, 19, 24}

IsLowerHex(c) == (48 <= c /\ c <= 57) \/ (97 <= c /\ c <= 102)

\* C4: every string the encoder produces has 36 characters, '-' at places 8,
\* 13, 18 and 23 (from 0), a character of [0-9a-f] everywhere else, and
\* is_valid_hex128 returns true for it.
C4_EncoderOutputValid ==
    /\ enc_pc = "encoded" =>
         /\ Len(enc_out) = 36
         /\ \A p \in 1..36 :
              IF p \in HyphenPlaces THEN enc_out[p] = Hyphen ELSE IsLowerHex(enc_out[p])
    /\ val_pc # "off" => (val_pc = "checked" /\ val_out = TRUE)

\* is_valid_hex128 has accepted the encoding of an identifier that next()
\* returned after the counter wrapped around
C4_Witness ==
    /\ val_pc = "checked" /\ val_out = TRUE
    /\ Len(issued) >= 2
    /\ enc_in = next_uuid(issued[Len(issued)], seed)
    /\ issued[1] = U64Max

\* byte j (from 0) of the 16 bytes the reference encoding writes: the first
\* 16 input bytes with 6 and 9 exchanged, 0x40 | (b & 0x0f) in place 6 and
\* 0x80 | (b & 0x3f) in place 8
RefByte(u, j) ==
    IF j = 6 THEN 64 + (u[10] % 16)
    ELSE IF j = 8 THEN 128 + (u[9] % 64)
    ELSE IF j = 9 THEN u[7]
    ELSE u[j + 1]

RefDigit(n) == IF n < 10 THEN 48 + n ELSE 97 + (n - 10)

\* the character at place p (from 0) of the reference encoding
RefChar(u, p) ==
    IF p \in {8, 13, 18, 23} THEN Hyphen
    ELSE LET n == p - Cardinality({ h \in {8, 13, 18, 23} : h < p })
             b == RefByte(u, n \div 2)
         IN  RefDigit(IF n % 2 = 0 THEN b \div 16 ELSE b % 16)

\* C5: for every input hex128_from_bytes writes the reference encoding: the
\* 32 lowercase digits of the 16 twiddled bytes in order, in groups of 8, 4,
\* 4, 4 and 12 with '-' between them; place 14 holds '4' and place 19 one of
\* '8', '9', 'a', 'b'.
C5_ReferenceEncoding ==
    enc_pc = "encoded" =>
        /\ enc_out = [p \in 1..36 |-> RefChar(enc_in, p - 1)]
        /\ enc_out[15] = 52
        /\ enc_out[20] \in {56, 57, 97, 98}

\* an input was encoded whose bytes 6 and 9 differ and whose version and
\* variant bits are not the ones the encoder forces
C5_Witness ==
    /\ enc_pc = "encoded"
    /\ enc_in[7] # enc_in[10]
    /\ enc_in[10] \div 16 # 4
    /\ enc_in[9] \div 64 # 2
    /\ enc_in[7] \div 16 # enc_in[7] % 16

\* contents bytes 16-23 of an input may have
EncTails == { Repeat(8, 0), Repeat(8, 255), <<1, 2, 3, 4, 5, 6, 7, 8>> }

\* C9: the output of hex128_from_bytes depends on bytes 0-15 of its input
\* alone, not on bytes 16-23 and not on what the buffer held, and the call
\* leaves the Generator's seed and counter as they were.
C9_OnlyFirst16 ==
    [][ (enc_pc = "input" /\ enc_pc' = "encoded") =>
          /\ seed' = seed
          /\ counter' = counter
          /\ \A tail \in EncTails, buffer \in Buffers :
               hex128_from_bytes(SubSeq(enc_in, 1, 16) \o tail, buffer) = enc_out' ]_vars

\* an input was encoded whose bytes 16-23 are none of the contents compared
\* with, after next() had moved the counter
C9_Witness ==
    /\ enc_pc = "encoded"
    /\ SubSeq(enc_in, 17, 24) \notin EncTails
    /\ Len(issued) >= 1

(***************************************************************************)
(* Properties of the validity checker (specification SpecVal).             *)
(***************************************************************************)
\* C6: is_valid_hex128 returns, without failing, true exactly for the
\* strings of length 36 with '-' at places 8, 13, 18 and 23 and a character
\* of [0-9a-f] at every other place; uppercase digits are refused and the
\* version and variant digits are not looked at.
C6_ValidIffShape ==
    val_pc # "input" =>
        /\ val_pc = "checked"
        /\ val_out =
             ( /\ Len(val_in) = 36
               /\ \A p \in 1..36 :
                    IF p \in HyphenPlaces THEN val_in[p] = Hyphen
                    ELSE IsLowerHex(val_in[p]) )

\* a string of the right shape but for one uppercase digit was refused
C6_Witness ==
    /\ val_pc = "checked"
    /\ val_out = FALSE
    /\ Len(val_in) = 36
    /\ \A p \in HyphenPlaces : val_in[p] = Hyphen
    /\ Cardinality({ p \in 1..36 : p \notin HyphenPlaces /\ ~IsLowerHex(val_in[p]) }) = 1
    /\ \E p \in 1..36 : val_in[p] = 70

====
